---- MODULE Spec2Model ----
(***************************************************************************)
(* Verification model of the helper routines of the TouchDesigner Python   *)
(* API examples (python-api-examples/*.py).  Every helper is a synchronous *)
(* single-threaded routine over the host's object model (operators,        *)
(* parameters, input connectors).  Each helper has its own specification   *)
(* (SpecPool, SpecParam, ...); the variables of the other helpers stay at  *)
(* their idle values in that specification.                                *)
(*                                                                         *)
(* Host calls are modelled by their visible outcome: parent.create(...)    *)
(* either returns a new operator or raises, connect() either rewires the   *)
(* connector or raises, destroy() removes a valid operator and raises on   *)
(* an operator that is no longer in the network.                           *)
(***************************************************************************)
EXTENDS Integers, Sequences, FiniteSets, TLC

\* Python's None (operators are positive integers)
None == 0

\* ---- bounds ----
MaxPoolSize == 3
MaxParValue == 2
MaxAttempts == 4
MaxBatchOps == 2
MaxBatchLen == 3
MaxConnectors == 2
MaxBystanders == 0
NumGraphOps == 3
MaxRewireInputs == 2
MaxNodePos == 1
MaxTime == 3
MaxElapsed == 1
MaxCalls == 2
MaxDebugCalls == 4
MaxFrame == 30
MaxDescriptions == 3

VARIABLES
    \* OperatorPool (performance_optimization_examples.py)
    pool_size, available, in_use, bypass, nodeX, nodeY, period,
    pool_created, pool_call, pool_ret,
    \* safe_parameter_set (error_handling_examples.py)
    par_isReadOnly, par_val, sp_operator, sp_param_name, sp_value,
    sp_ret, sp_exc,
    \* retry_operation (error_handling_examples.py)
    rt_max_attempts, rt_attempt, rt_pc, rt_log, rt_sleeps, rt_ret,
    \* create_with_fallback (error_handling_examples.py)
    fb_names, fb_attempt, fb_pc, fb_tried, fb_created, fb_ret,
    \* try_except_patterns: the operators of /project1,
    \* create_network_with_cleanup and OperatorContext
    net, cl_pc, created_ops, cl_conn, cl_i, cl_error, cl_ret,
    cx_pc, cx_operator, cx_net0, cx_colorr, cx_body, cx_pending,
    cx_destroys, cx_propagated,
    \* safe_batch_operation (error_handling_examples.py)
    bt_operators, bt_fail, bt_i, completed, bt_called, bt_w, bt_h, bt_pc,
    bt_ret,
    \* safe_connect (error_handling_examples.py)
    sc_conn, sc_source, sc_target, sc_index, sc_ret,
    \* insert_operator_between (connection_examples.py)
    ib_conn, ib_pc, ib_ret,
    \* get_downstream_ops, get_upstream_ops, find_paths
    gr_wires, gr_call, gr_arg, gr_end, gr_ret, gr_paths,
    \* safe_rewire_network (error_handling_examples.py)
    rw_conn, rw_conn0, rw_exists, rw_pc, rw_input_connections,
    rw_output_connections, rw_k, rw_ret,
    \* NetworkState (error_handling_examples.py)
    ns_nodeX, ns_nodeY, ns_par, ns_readOnly, ns_evalFails, ns_state,
    ns_saved, ns_call, ns_ret,
    \* CachedIterator (performance_optimization_examples.py)
    ci_time, ci_children, ci_cache, ci_cache_time, ci_call, ci_ret,
    ci_got, ci_invalidated, ci_read, ci_read_time, ci_read_list,
    \* PerformanceProfiler (performance_optimization_examples.py)
    pm_measurements, pm_order, pm_log, pm_call,
    \* DebugLogger, debug_operation (error_handling_examples.py)
    dl_text, dl_pc, dl_func, dl_calls, dl_ret,
    \* onFrameStart of pipeline_execute (data_handling_examples.py)
    fs_table, fs_frame,
    \* create_from_json (data_handling_examples.py)
    cj_operators, cj_i, cj_created_ops, cj_input0, cj_pc

poolVars == << pool_size, available, in_use, bypass, nodeX, nodeY, period,
               pool_created, pool_call, pool_ret >>

paramVars == << par_isReadOnly, par_val, sp_operator, sp_param_name,
                sp_value, sp_ret, sp_exc >>

retryVars == << rt_max_attempts, rt_attempt, rt_pc, rt_log, rt_sleeps,
                rt_ret >>

fallbackVars == << fb_names, fb_attempt, fb_pc, fb_tried, fb_created,
                   fb_ret >>

cleanupVars == << net, cl_pc, created_ops, cl_conn, cl_i, cl_error, cl_ret,
                  cx_pc, cx_operator, cx_net0, cx_colorr, cx_body,
                  cx_pending, cx_destroys, cx_propagated >>

batchVars == << bt_operators, bt_fail, bt_i, completed, bt_called, bt_w,
                bt_h, bt_pc, bt_ret >>

connectVars == << sc_conn, sc_source, sc_target, sc_index, sc_ret >>

insertVars == << ib_conn, ib_pc, ib_ret >>

graphVars == << gr_wires, gr_call, gr_arg, gr_end, gr_ret, gr_paths >>

rewireVars == << rw_conn, rw_conn0, rw_exists, rw_pc,
                 rw_input_connections, rw_output_connections, rw_k,
                 rw_ret >>

stateVars == << ns_nodeX, ns_nodeY, ns_par, ns_readOnly,
                ns_evalFails, ns_state, ns_saved, ns_call, ns_ret >>

cacheVars == << ci_time, ci_children, ci_cache, ci_cache_time,
                ci_call, ci_ret, ci_got, ci_invalidated, ci_read,
                ci_read_time, ci_read_list >>

profilerVars == << pm_measurements, pm_order, pm_log, pm_call >>

debugVars == << dl_text, dl_pc, dl_func, dl_calls, dl_ret >>

frameVars == << fs_table, fs_frame >>

jsonVars == << cj_operators, cj_i, cj_created_ops, cj_input0, cj_pc >>

vars == << poolVars, paramVars, retryVars, fallbackVars, cleanupVars,
           batchVars, connectVars, insertVars, graphVars, rewireVars,
           stateVars, cacheVars, profilerVars, debugVars, frameVars,
           jsonVars >>

\* ---- sequence helpers (Python list operations) ----
Elems(s) == { s[i] : i \in 1..Len(s) }

NoDuplicates(s) == \A i, j \in 1..Len(s) : i # j => s[i] # s[j]

\* list.remove(x): removes the first occurrence of x
RECURSIVE ListRemove(_, _)
ListRemove(s, x) ==
    IF s = << >> THEN << >>
    ELSE IF Head(s) = x THEN Tail(s)
    ELSE << Head(s) >> \o ListRemove(Tail(s), x)

\* list.pop(): the last element and the list without it
ListPopped(s) == SubSeq(s, 1, Len(s) - 1)
ListLast(s) == s[Len(s)]

(***************************************************************************)
(* OperatorPool                                                            *)
(***************************************************************************)
\* operators that can be handed to release(): the pooled ones and one
\* operator created outside the pool
PoolObjs == 1..(MaxPoolSize + 1)

\* OperatorPool.__init__: pool_size operators pre-created, hidden, bypassed
PoolInit ==
    /\ pool_size \in 0..MaxPoolSize
    /\ available = [ i \in 1..pool_size |-> i ]
    /\ in_use = << >>
    /\ bypass = [ o \in PoolObjs |-> o <= pool_size ]
    /\ nodeX = [ o \in PoolObjs |-> IF o <= pool_size THEN -1000 ELSE 0 ]
    /\ nodeY = [ o \in PoolObjs |-> IF o <= pool_size THEN -1000 ELSE 0 ]
    /\ period = [ o \in PoolObjs |-> 1 ]
    /\ pool_created = pool_size
    /\ pool_call = "init"
    /\ pool_ret = None

PoolIdle ==
    /\ pool_size = 0
    /\ available = << >>
    /\ in_use = << >>
    /\ bypass = [ o \in PoolObjs |-> FALSE ]
    /\ nodeX = [ o \in PoolObjs |-> 0 ]
    /\ nodeY = [ o \in PoolObjs |-> 0 ]
    /\ period = [ o \in PoolObjs |-> 1 ]
    /\ pool_created = 0
    /\ pool_call = "init"
    /\ pool_ret = None

\* acquire() that builds a new operator when the pool is exhausted
acquire_grow ==
    /\ pool_call' = "acquire"
    /\ IF available # << >>
       THEN /\ available' = ListPopped(available)
            /\ in_use' = Append(in_use, ListLast(available))
            /\ bypass' = [ bypass EXCEPT ![ListLast(available)] = FALSE ]
            /\ pool_ret' = ListLast(available)
            /\ UNCHANGED pool_created
       ELSE /\ pool_created' = pool_created + 1
            /\ in_use' = Append(in_use, MaxPoolSize + 1)
            /\ bypass' = [ bypass EXCEPT ![MaxPoolSize + 1] = FALSE ]
            /\ pool_ret' = MaxPoolSize + 1
            /\ UNCHANGED available
    /\ UNCHANGED << pool_size, nodeX, nodeY, period >>

\* OperatorPool.acquire
acquire ==
    /\ pool_call' = "acquire"
    /\ IF available # << >>
       THEN /\ available' = ListPopped(available)
            /\ in_use' = Append(in_use, ListLast(available))
            /\ bypass' = [ bypass EXCEPT ![ListLast(available)] = FALSE ]
            /\ pool_ret' = ListLast(available)
       ELSE /\ pool_ret' = None
            /\ UNCHANGED << available, in_use, bypass >>
    /\ UNCHANGED << pool_size, nodeX, nodeY, period, pool_created >>

\* OperatorPool.reset_operator, the values it leaves in par.period
reset_operator(op_obj) == [ period EXCEPT ![op_obj] = 1 ]

\* release() without the membership test
release_unchecked(op_obj) ==
    /\ pool_call' = "release"
    /\ pool_ret' = None
    /\ in_use' = ListRemove(in_use, op_obj)
    /\ available' = Append(available, op_obj)
    /\ bypass' = [ bypass EXCEPT ![op_obj] = TRUE ]
    /\ nodeX' = [ nodeX EXCEPT ![op_obj] = -1000 ]
    /\ nodeY' = [ nodeY EXCEPT ![op_obj] = -1000 ]
    /\ period' = reset_operator(op_obj)
    /\ UNCHANGED << pool_size, pool_created >>

\* OperatorPool.release
release(op_obj) ==
    /\ pool_call' = "release"
    /\ pool_ret' = None
    /\ IF op_obj \in Elems(in_use)
       THEN /\ in_use' = ListRemove(in_use, op_obj)
            /\ available' = Append(available, op_obj)
            /\ bypass' = [ bypass EXCEPT ![op_obj] = TRUE ]
            /\ nodeX' = [ nodeX EXCEPT ![op_obj] = -1000 ]
            /\ nodeY' = [ nodeY EXCEPT ![op_obj] = -1000 ]
            /\ period' = reset_operator(op_obj)
       ELSE UNCHANGED << in_use, available, bypass, nodeX, nodeY, period >>
    /\ UNCHANGED << pool_size, pool_created >>

\* the caller's use of an acquired operator (the i-th of the test loop)
place(op_obj, i) ==
    /\ op_obj \in Elems(in_use)
    /\ nodeX' = [ nodeX EXCEPT ![op_obj] = i * 150 ]
    /\ nodeY' = [ nodeY EXCEPT ![op_obj] = 1000 ]
    /\ period' = [ period EXCEPT ![op_obj] = 5 + i ]
    /\ pool_call' = "place"
    /\ pool_ret' = None
    /\ UNCHANGED << pool_size, available, in_use, bypass, pool_created >>

PoolStep ==
    \/ acquire
    \/ \E op_obj \in PoolObjs \cup {None} : release(op_obj)
    \/ \E op_obj \in PoolObjs, i \in 0..1 : place(op_obj, i)

(***************************************************************************)
(* safe_parameter_set                                                      *)
(***************************************************************************)
\* the parameters of the test operator (a noiseTOP) and the names tried
ParNames == { "period", "seed" }
ParamNameArgs == ParNames \cup { "invalid_param" }
ParValues == 0..MaxParValue

ParamInit ==
    /\ par_isReadOnly \in [ ParNames -> BOOLEAN ]
    /\ par_val \in [ ParNames -> {0} ]
    /\ sp_operator = None
    /\ sp_param_name = "period"
    /\ sp_value = 0
    /\ sp_ret = "none"
    /\ sp_exc = "none"

ParamIdle ==
    /\ par_isReadOnly = [ n \in ParNames |-> FALSE ]
    /\ par_val = [ n \in ParNames |-> 0 ]
    /\ sp_operator = None
    /\ sp_param_name = "period"
    /\ sp_value = 0
    /\ sp_ret = "none"
    /\ sp_exc = "none"

\* the try block without the isReadOnly test
TryBodyRaises_noReadOnly(operator, param_name, hostRaises) ==
    IF operator = None THEN "ValueError"
    ELSE IF param_name \notin ParNames THEN "AttributeError"
    ELSE IF hostRaises THEN "tdError"
    ELSE "none"

\* the exception raised inside the try block, "none" when it completes;
\* hostRaises: the host rejects the assignment param.val = value
TryBodyRaises(operator, param_name, hostRaises) ==
    IF operator = None THEN "ValueError"
    ELSE IF param_name \notin ParNames THEN "AttributeError"
    ELSE IF par_isReadOnly[param_name] THEN "RuntimeError"
    ELSE IF hostRaises THEN "tdError"
    ELSE "none"

\* the except clauses: ValueError, AttributeError, RuntimeError, Exception
Handled(exc) == exc \in { "ValueError", "AttributeError", "RuntimeError", "tdError" }

\* safe_parameter_set
safe_parameter_set(operator, param_name, value, hostRaises) ==
    LET exc == TryBodyRaises(operator, param_name, hostRaises) IN
    /\ sp_operator' = operator
    /\ sp_param_name' = param_name
    /\ sp_value' = value
    /\ IF exc = "none"
       THEN /\ par_val' = [ par_val EXCEPT ![param_name] = value ]
            /\ sp_ret' = "True"
            /\ sp_exc' = "none"
       ELSE /\ par_val' = par_val
            /\ sp_ret' = IF Handled(exc) THEN "False" ELSE "none"
            /\ sp_exc' = IF Handled(exc) THEN "none" ELSE exc
    /\ UNCHANGED par_isReadOnly

ParamStep ==
    \E operator \in { None, 1 }, param_name \in ParamNameArgs,
       value \in ParValues, hostRaises \in BOOLEAN :
        safe_parameter_set(operator, param_name, value, hostRaises)

(***************************************************************************)
(* retry_operation                                                         *)
(***************************************************************************)
\* what func() can return and the messages of the exceptions it can raise
FuncResults == { "Success!", "Done" }
FuncMessages == { "Temporary failure", "Invalid OP object" }

RetryInit ==
    /\ rt_max_attempts \in 0..MaxAttempts
    /\ rt_attempt = 0
    /\ rt_pc = "try"
    /\ rt_log = << >>
    /\ rt_sleeps = 0
    /\ rt_ret = << "pending", "" >>

RetryIdle ==
    /\ rt_max_attempts = 0
    /\ rt_attempt = 0
    /\ rt_pc = "try"
    /\ rt_log = << >>
    /\ rt_sleeps = 0
    /\ rt_ret = << "pending", "" >>

\* the test that sleeps and goes round again, one attempt too generous
MoreAttempts_offByOne(attempt, max_attempts) == attempt < max_attempts

\* if attempt < max_attempts - 1
MoreAttempts(attempt, max_attempts) == attempt < max_attempts - 1

\* one iteration of the for loop: the call of func and its handling
retry_attempt ==
    /\ rt_pc = "try"
    /\ IF rt_attempt >= rt_max_attempts
       THEN \* range(max_attempts) is exhausted: the function falls off its end
            /\ rt_pc' = "done"
            /\ rt_ret' = << "None", "" >>
            /\ UNCHANGED << rt_log >>
       ELSE \/ \E result \in FuncResults :
                 /\ rt_log' = Append(rt_log, [ ok |-> TRUE, val |-> result ])
                 /\ rt_ret' = << "True", result >>
                 /\ rt_pc' = "done"
            \/ \E e \in FuncMessages :
                 /\ rt_log' = Append(rt_log, [ ok |-> FALSE, val |-> e ])
                 /\ IF MoreAttempts(rt_attempt, rt_max_attempts)
                    THEN rt_pc' = "sleep" /\ UNCHANGED rt_ret
                    ELSE rt_pc' = "done" /\ rt_ret' = << "False", e >>
    /\ UNCHANGED << rt_max_attempts, rt_attempt, rt_sleeps >>

\* time.sleep(delay) and the next value of the loop variable
retry_sleep ==
    /\ rt_pc = "sleep"
    /\ rt_sleeps' = rt_sleeps + 1
    /\ rt_attempt' = rt_attempt + 1
    /\ rt_pc' = "try"
    /\ UNCHANGED << rt_max_attempts, rt_log, rt_ret >>

RetryStep == retry_attempt \/ retry_sleep

(***************************************************************************)
(* create_with_fallback                                                    *)
(***************************************************************************)
\* while attempt < 10
FallbackLimit == 10

\* name = base_name if attempt == 0 else f"{base_name}_{attempt}"
FallbackName(attempt) ==
    IF attempt = 0 THEN << "fallback_test" >> ELSE << "fallback_test", attempt >>

\* the names that may already be taken in the parent when the call starts
FallbackNames == { FallbackName(k) : k \in 0..FallbackLimit }

FallbackInit ==
    /\ fb_names \in SUBSET FallbackNames
    /\ fb_attempt = 0
    /\ fb_pc = "loop"
    /\ fb_tried = << >>
    /\ fb_created = << >>
    /\ fb_ret = << "pending" >>

FallbackIdle ==
    /\ fb_names = {}
    /\ fb_attempt = 0
    /\ fb_pc = "loop"
    /\ fb_tried = << >>
    /\ fb_created = << >>
    /\ fb_ret = << "pending" >>

\* a loop test that allows one more attempt
FallbackContinue_extra(attempt) == attempt <= FallbackLimit

\* while attempt < 10
FallbackContinue(attempt) == attempt < FallbackLimit

\* one iteration of the while loop, or the exit from it; parent.create
\* raises when the name is taken
create_with_fallback ==
    /\ fb_pc = "loop"
    /\ IF FallbackContinue(fb_attempt)
       THEN LET name == FallbackName(fb_attempt) IN
            /\ fb_tried' = Append(fb_tried, name)
            /\ IF name \notin fb_names
               THEN /\ fb_names' = fb_names \cup { name }
                    /\ fb_created' = Append(fb_created, name)
                    /\ fb_ret' = name
                    /\ fb_pc' = "done"
                    /\ UNCHANGED fb_attempt
               ELSE /\ fb_attempt' = fb_attempt + 1
                    /\ UNCHANGED << fb_names, fb_created, fb_ret, fb_pc >>
       ELSE /\ fb_ret' = << "None" >>
            /\ fb_pc' = "done"
            /\ UNCHANGED << fb_names, fb_attempt, fb_tried, fb_created >>

FallbackStep == create_with_fallback

(***************************************************************************)
(* create_network_with_cleanup and OperatorContext, run one after the      *)
(* other by try_except_patterns on the operators of /project1              *)
(***************************************************************************)
\* operator names that may already exist in /project1
CleanupNames == { "cleanup_noise", "cleanup_blur", "context_test" }

cxVars == << cx_pc, cx_operator, cx_net0, cx_colorr, cx_body, cx_pending,
             cx_destroys, cx_propagated >>

clVars == << cl_pc, created_ops, cl_conn, cl_i, cl_error, cl_ret >>

\* a cleanup loop over created_ops[1:]
CleanupTargets_skipFirst(created) == SubSeq(created, 2, Len(created))

\* for op_obj in created_ops
CleanupTargets(created) == created

CleanupInit ==
    /\ net \in SUBSET CleanupNames
    /\ cl_pc = "create_noise"
    /\ created_ops = << >>
    /\ cl_conn = "None"
    /\ cl_i = 1
    /\ cl_error = "none"
    /\ cl_ret = "pending"
    /\ cx_pc = "enter"
    /\ cx_operator = "None"
    /\ cx_net0 = {}
    /\ cx_colorr = 0
    /\ cx_body = "none"
    /\ cx_pending = "none"
    /\ cx_destroys = 0
    /\ cx_propagated = "none"

CleanupIdle ==
    /\ net = {}
    /\ cl_pc = "create_noise"
    /\ created_ops = << >>
    /\ cl_conn = "None"
    /\ cl_i = 1
    /\ cl_error = "none"
    /\ cl_ret = "pending"
    /\ cx_pc = "enter"
    /\ cx_operator = "None"
    /\ cx_net0 = {}
    /\ cx_colorr = 0
    /\ cx_body = "none"
    /\ cx_pending = "none"
    /\ cx_destroys = 0
    /\ cx_propagated = "none"

\* parent.create(op_type, name) raises on a name that is taken, or when
\* the host refuses for another reason (hostRaises)
CreateRaises(name, hostRaises) == name \in net \/ hostRaises

\* op_obj.destroy() raises on an operator that is no longer in the network
DestroyRaises(name) == name \notin net

\* noise = create(noiseTOP, 'cleanup_noise'); created_ops.append(noise)
cl_create_noise ==
    /\ cl_pc = "create_noise"
    /\ \E hostRaises \in BOOLEAN :
         IF CreateRaises("cleanup_noise", hostRaises)
         THEN /\ cl_error' = "create noise failed"
              /\ cl_pc' = "cleanup"
              /\ UNCHANGED << net, created_ops >>
         ELSE /\ net' = net \cup { "cleanup_noise" }
              /\ created_ops' = Append(created_ops, "cleanup_noise")
              /\ cl_pc' = "create_blur"
              /\ UNCHANGED cl_error
    /\ UNCHANGED << cl_conn, cl_i, cl_ret, cxVars >>

\* blur = create(blurTOP, 'cleanup_blur'); created_ops.append(blur)
cl_create_blur ==
    /\ cl_pc = "create_blur"
    /\ \E hostRaises \in BOOLEAN :
         IF CreateRaises("cleanup_blur", hostRaises)
         THEN /\ cl_error' = "create blur failed"
              /\ cl_pc' = "cleanup"
              /\ UNCHANGED << net, created_ops >>
         ELSE /\ net' = net \cup { "cleanup_blur" }
              /\ created_ops' = Append(created_ops, "cleanup_blur")
              /\ cl_pc' = "connect"
              /\ UNCHANGED cl_error
    /\ UNCHANGED << cl_conn, cl_i, cl_ret, cxVars >>

\* blur.inputConnectors[0].connect(noise), then the simulated error
cl_connect ==
    /\ cl_pc = "connect"
    /\ \E hostRaises \in BOOLEAN :
         IF hostRaises
         THEN /\ cl_error' = "connect failed"
              /\ cl_pc' = "cleanup"
              /\ UNCHANGED << cl_conn, cl_ret >>
         ELSE /\ cl_conn' = "cleanup_noise"
              /\ IF Len(created_ops) > 1
                 THEN /\ cl_error' = "Simulated error during network creation"
                      /\ cl_pc' = "cleanup"
                      /\ UNCHANGED cl_ret
                 ELSE /\ cl_ret' = "created_ops"
                      /\ cl_pc' = "done"
                      /\ UNCHANGED cl_error
    /\ UNCHANGED << net, created_ops, cl_i, cxVars >>

\* the except block: one iteration of the cleanup loop, or return None
cl_cleanup ==
    /\ cl_pc = "cleanup"
    /\ LET targets == CleanupTargets(created_ops) IN
       IF cl_i <= Len(targets)
       THEN /\ IF DestroyRaises(targets[cl_i])
               THEN UNCHANGED << net, cl_conn >>
               ELSE /\ net' = net \ { targets[cl_i] }
                    /\ cl_conn' = "None"
            /\ cl_i' = cl_i + 1
            /\ UNCHANGED << cl_pc, cl_ret >>
       ELSE /\ cl_ret' = "None"
            /\ cl_pc' = "done"
            /\ UNCHANGED << net, cl_conn, cl_i >>
    /\ UNCHANGED << created_ops, cl_error, cxVars >>

\* what the with-body may raise
BodyExceptions == { "Test error", "tdError" }

\* OperatorContext.__enter__ (the with statement starts after
\* create_network_with_cleanup has returned)
cx_enter ==
    /\ cl_pc = "done"
    /\ cx_pc = "enter"
    /\ cx_net0' = net
    /\ \E hostRaises \in BOOLEAN :
         IF CreateRaises("context_test", hostRaises)
         THEN \* printed and re-raised; __exit__ is not called
              /\ cx_propagated' = "create failed"
              /\ cx_pc' = "done"
              /\ UNCHANGED << net, cx_operator >>
         ELSE /\ net' = net \cup { "context_test" }
              /\ cx_operator' = "context_test"
              /\ cx_pc' = "body"
              /\ UNCHANGED cx_propagated
    /\ UNCHANGED << clVars, cx_colorr, cx_body, cx_pending, cx_destroys >>

\* the with-body: const.par.colorr = ..., and possibly an exception
cx_with_body ==
    /\ cx_pc = "body"
    /\ \E v \in ParValues : cx_colorr' = v
    /\ \/ cx_body' = "normal" /\ cx_pending' = "none"
       \/ \E e \in BodyExceptions : cx_body' = "raised" /\ cx_pending' = e
    /\ cx_pc' = "exit"
    /\ UNCHANGED << net, clVars, cx_operator, cx_net0, cx_destroys,
                    cx_propagated >>

\* __exit__ that destroys the operator whether or not the body raised
ExitCleansUp_always(exc_type) == TRUE

\* if exc_type is not None
ExitCleansUp(exc_type) == exc_type # "none"

\* OperatorContext.__exit__; it returns False, so the exception goes on
cx_exit ==
    /\ cx_pc = "exit"
    /\ IF ExitCleansUp(cx_pending) /\ cx_operator # "None"
       THEN /\ cx_destroys' = cx_destroys + 1
            /\ IF DestroyRaises(cx_operator)
               THEN UNCHANGED net
               ELSE net' = net \ { cx_operator }
       ELSE UNCHANGED << net, cx_destroys >>
    /\ cx_propagated' = cx_pending
    /\ cx_pc' = "done"
    /\ UNCHANGED << clVars, cx_operator, cx_net0, cx_colorr, cx_body,
                    cx_pending >>

CleanupStep ==
    \/ cl_create_noise
    \/ cl_create_blur
    \/ cl_connect
    \/ cl_cleanup
    \/ cx_enter
    \/ cx_with_body
    \/ cx_exit

(***************************************************************************)
(* safe_batch_operation with an operation like set_resolution              *)
(***************************************************************************)
BatchOps == 1..MaxBatchOps

\* the resolution of an operator before the batch and the one set by it
DefaultResolution == 256
BatchResolution == 512

BatchInit ==
    /\ \E n \in 0..MaxBatchLen :
         bt_operators \in [ 1..n -> BatchOps \cup { None } ]
    /\ bt_fail \in SUBSET BatchOps
    /\ bt_i = 1
    /\ completed = << >>
    /\ bt_called = << >>
    /\ bt_w = [ o \in BatchOps |-> DefaultResolution ]
    /\ bt_h = [ o \in BatchOps |-> DefaultResolution ]
    /\ bt_pc = "loop"
    /\ bt_ret = << "pending", << >> >>

BatchIdle ==
    /\ bt_operators = << >>
    /\ bt_fail = {}
    /\ bt_i = 1
    /\ completed = << >>
    /\ bt_called = << >>
    /\ bt_w = [ o \in BatchOps |-> DefaultResolution ]
    /\ bt_h = [ o \in BatchOps |-> DefaultResolution ]
    /\ bt_pc = "loop"
    /\ bt_ret = << "pending", << >> >>

\* one iteration of the for loop, or its normal end.  operation_func sets
\* par.w and par.h; on the operators of bt_fail it raises, either before
\* it changed anything or between the two assignments
safe_batch_operation ==
    /\ bt_pc = "loop"
    /\ IF bt_i > Len(bt_operators)
       THEN /\ bt_ret' = << "True", completed >>
            /\ bt_pc' = "done"
            /\ UNCHANGED << bt_i, completed, bt_called, bt_w, bt_h >>
       ELSE LET op_obj == bt_operators[bt_i] IN
            IF op_obj = None
            THEN /\ bt_i' = bt_i + 1
                 /\ UNCHANGED << completed, bt_called, bt_w, bt_h, bt_pc, bt_ret >>
            ELSE IF op_obj \in bt_fail
            THEN /\ bt_called' = Append(bt_called, op_obj)
                 /\ \/ UNCHANGED bt_w
                    \/ bt_w' = [ bt_w EXCEPT ![op_obj] = BatchResolution ]
                 \* except: "Rollback could be implemented here"
                 /\ bt_ret' = << "False", completed >>
                 /\ bt_pc' = "done"
                 /\ UNCHANGED << bt_i, completed, bt_h >>
            ELSE /\ bt_called' = Append(bt_called, op_obj)
                 /\ bt_w' = [ bt_w EXCEPT ![op_obj] = BatchResolution ]
                 /\ bt_h' = [ bt_h EXCEPT ![op_obj] = BatchResolution ]
                 /\ completed' = Append(completed, op_obj)
                 /\ bt_i' = bt_i + 1
                 /\ UNCHANGED << bt_pc, bt_ret >>
    /\ UNCHANGED << bt_operators, bt_fail >>

BatchStep == safe_batch_operation

(***************************************************************************)
(* safe_op_access and safe_connect                                         *)
(***************************************************************************)
\* the operators of the test: exist_noise1 and exist_blur1
ConnectOps == { 1, 2 }
ConnectPaths == { "exist_noise1", "exist_blur1", "invalid_op" }

\* op(path): the operator at the path, None when there is none
OpAt(path) ==
    IF path = "exist_noise1" THEN 1
    ELSE IF path = "exist_blur1" THEN 2
    ELSE None

\* safe_op_access: None when op() returns None or raises
safe_op_access(path, hostRaises) == IF hostRaises THEN None ELSE OpAt(path)

\* position (1-based) that Python's list indexing selects in a list of
\* length n; 0 when indexing raises IndexError
PyIndex(index, n) ==
    IF index >= 0 /\ index < n THEN index + 1
    ELSE IF index < 0 /\ index >= -n THEN n + index + 1
    ELSE 0

ConnectInit ==
    /\ sc_conn = [ o \in ConnectOps |-> [ i \in 1..MaxConnectors |-> None ] ]
    /\ sc_source = "invalid_op"
    /\ sc_target = "invalid_op"
    /\ sc_index = 0
    /\ sc_ret = << "pending", "" >>

ConnectIdle ==
    /\ sc_conn = [ o \in ConnectOps |-> [ i \in 1..MaxConnectors |-> None ] ]
    /\ sc_source = "invalid_op"
    /\ sc_target = "invalid_op"
    /\ sc_index = 0
    /\ sc_ret = << "pending", "" >>

\* safe_connect; accessRaises: op() raises in safe_op_access,
\* connectRaises: the host refuses the connection
safe_connect(source_path, target_path, input_index, accessRaises, connectRaises) ==
    LET source == safe_op_access(source_path, accessRaises)
        target == safe_op_access(target_path, accessRaises)
    IN
    /\ sc_source' = source_path
    /\ sc_target' = target_path
    /\ sc_index' = input_index
    /\ IF source = None
       THEN sc_ret' = << "False", "Source operator not found" >> /\ UNCHANGED sc_conn
       ELSE IF target = None
       THEN sc_ret' = << "False", "Target operator not found" >> /\ UNCHANGED sc_conn
       ELSE IF input_index >= Len(sc_conn[target])
       THEN sc_ret' = << "False", "Invalid input index" >> /\ UNCHANGED sc_conn
       ELSE IF PyIndex(input_index, Len(sc_conn[target])) = 0 \/ connectRaises
       THEN sc_ret' = << "False", "Connection failed" >> /\ UNCHANGED sc_conn
       ELSE /\ sc_conn' = [ sc_conn EXCEPT
                    ![target][PyIndex(input_index, Len(sc_conn[target]))] = source ]
            /\ sc_ret' = << "True", "Connected successfully" >>

ConnectStep ==
    \E source_path \in ConnectPaths, target_path \in ConnectPaths,
       input_index \in (-(MaxConnectors + 1))..(MaxConnectors + 1),
       accessRaises \in BOOLEAN, connectRaises \in BOOLEAN :
        safe_connect(source_path, target_path, input_index, accessRaises,
                     connectRaises)

(***************************************************************************)
(* insert_operator_between                                                 *)
(***************************************************************************)
\* the three operators of the call, pairwise distinct, and the operators
\* of the network that take no part in it
IbSource == 1
IbTarget == 2
IbNewOp == 3
InsertOps == 1..(3 + MaxBystanders)

InsertInit ==
    /\ ib_conn \in [ InsertOps -> [ 1..MaxConnectors -> InsertOps \cup { None } ] ]
    /\ ib_pc = "call"
    /\ ib_ret = "pending"

InsertIdle ==
    /\ ib_conn = [ o \in InsertOps |-> [ i \in 1..MaxConnectors |-> None ] ]
    /\ ib_pc = "call"
    /\ ib_ret = "pending"

\* connector.connect(x) and connector.disconnect() on input i of operator o
HostConnect(conn, o, i, x) == [ conn EXCEPT ![o][i] = x ]
HostDisconnect(conn, o, i) == [ conn EXCEPT ![o][i] = None ]

\* the connectors of target that source feeds
ConnectorsFrom(conn, source, target) ==
    { i \in 1..Len(conn[target]) : conn[target][i] = source }

\* the connector that gets new_op, were it always the first one of target
InsertAt_first(found) == 1

\* connector.connect(new_op): the connector found by the loop
InsertAt(found) == found

\* insert_operator_between(new_op, source, target)
insert_operator_between(new_op, source, target) ==
    /\ ib_pc = "call"
    /\ ib_pc' = "done"
    /\ LET hits == ConnectorsFrom(ib_conn, source, target) IN
       IF hits # {}
       THEN LET i == CHOOSE k \in hits : \A j \in hits : k <= j
                c1 == HostDisconnect(ib_conn, target, i)
                c2 == HostConnect(c1, new_op, 1, source)
                c3 == HostConnect(c2, target, InsertAt(i), new_op)
            IN ib_conn' = c3 /\ ib_ret' = "True"
       ELSE ib_ret' = "False" /\ UNCHANGED ib_conn

InsertStep == insert_operator_between(IbNewOp, IbSource, IbTarget)

(***************************************************************************)
(* get_downstream_ops, get_upstream_ops (connection_examples.py) and       *)
(* find_paths (network_navigation_examples.py) on a connection graph       *)
(***************************************************************************)
GraphOps == 1..NumGraphOps

\* the wires an operator network can have: << a, b >> is an output of a
\* connected to an input of b
GraphWires == { w \in GraphOps \X GraphOps : w[1] # w[2] }

\* depth at which the interpreter stops a recursion with RecursionError;
\* deeper than any chain of distinct operators
RecursionLimit == NumGraphOps + 1

\* injective sequences over a set: the orders list(set(...)) can produce
SeqsOf(S) ==
    { s \in [ 1..Cardinality(S) -> S ] :
        \A i, j \in 1..Cardinality(S) : i # j => s[i] # s[j] }

\* a set of operators as a list, in the host's order
RECURSIVE SetToList(_)
SetToList(S) ==
    IF S = {} THEN << >>
    ELSE LET x == CHOOSE y \in S : \A z \in S : y <= z
         IN << x >> \o SetToList(S \ { x })

\* the owners of the connections of operator.outputConnectors
OutputOwners(E, operator) == SetToList({ b \in GraphOps : << operator, b >> \in E })

\* the connections of operator.inputConnectors
InputSources(E, operator) == SetToList({ a \in GraphOps : << a, operator >> \in E })

GraphError == [ err |-> TRUE, list |-> << >> ]

\* the list built by the two nested loops of get_downstream_ops before
\* duplicates are removed; err when the recursion exceeds the limit
RECURSIVE DownstreamList(_, _, _)
RECURSIVE DownstreamLoop(_, _, _)
DownstreamLoop(E, owners, depth) ==
    IF owners = << >> THEN [ err |-> FALSE, list |-> << >> ]
    ELSE LET sub == DownstreamList(E, Head(owners), depth + 1) IN
         IF sub.err THEN GraphError
         ELSE LET rest == DownstreamLoop(E, Tail(owners), depth) IN
              IF rest.err THEN GraphError
              ELSE [ err |-> FALSE,
                     list |-> << Head(owners) >> \o sub.list \o rest.list ]

\* list(set(...)) of the recursive call is again a list of its elements
DownstreamList(E, operator, depth) ==
    IF depth > RecursionLimit THEN GraphError
    ELSE LET r == DownstreamLoop(E, OutputOwners(E, operator), depth) IN
         IF r.err THEN GraphError
         ELSE [ err |-> FALSE, list |-> SetToList(Elems(r.list)) ]

\* the same loops of get_upstream_ops over the input connectors
RECURSIVE UpstreamList(_, _, _)
RECURSIVE UpstreamLoop(_, _, _)
UpstreamLoop(E, sources, depth) ==
    IF sources = << >> THEN [ err |-> FALSE, list |-> << >> ]
    ELSE LET sub == UpstreamList(E, Head(sources), depth + 1) IN
         IF sub.err THEN GraphError
         ELSE LET rest == UpstreamLoop(E, Tail(sources), depth) IN
              IF rest.err THEN GraphError
              ELSE [ err |-> FALSE,
                     list |-> << Head(sources) >> \o sub.list \o rest.list ]

UpstreamList(E, operator, depth) ==
    IF depth > RecursionLimit THEN GraphError
    ELSE LET r == UpstreamLoop(E, InputSources(E, operator), depth) IN
         IF r.err THEN GraphError
         ELSE [ err |-> FALSE, list |-> SetToList(Elems(r.list)) ]

\* the accumulated list returned as it is
RemoveDuplicates_none(list) == { list }

\* return list(set(downstream)): the elements once each, in any order
RemoveDuplicates(list) == SeqsOf(Elems(list))

\* paths.append(path), the start operator forgotten
PathFrom_dropStart(start_op, path) == path

\* paths.append([start_op] + path)
PathFrom(start_op, path) == << start_op >> \o path

\* find_paths(start_op, end_op, visited)
RECURSIVE find_paths(_, _, _, _)
RECURSIVE FindPathsLoop(_, _, _, _, _)
FindPathsLoop(E, start_op, owners, end_op, visited) ==
    IF owners = << >> THEN << >>
    ELSE LET next_op == Head(owners)
             sub_paths == IF next_op \notin visited
                          THEN find_paths(E, next_op, end_op, visited)
                          ELSE << >>
         IN [ k \in 1..Len(sub_paths) |-> PathFrom(start_op, sub_paths[k]) ]
            \o FindPathsLoop(E, start_op, Tail(owners), end_op, visited)

find_paths(E, start_op, end_op, visited) ==
    IF start_op = end_op THEN << << start_op >> >>
    ELSE FindPathsLoop(E, start_op, OutputOwners(E, start_op), end_op,
                       visited \cup { start_op })

GraphInit ==
    /\ gr_wires \in SUBSET GraphWires
    /\ gr_call = "none"
    /\ gr_arg = None
    /\ gr_end = None
    /\ gr_ret = [ err |-> FALSE, list |-> << >> ]
    /\ gr_paths = << >>

GraphIdle ==
    /\ gr_wires = {}
    /\ gr_call = "none"
    /\ gr_arg = None
    /\ gr_end = None
    /\ gr_ret = [ err |-> FALSE, list |-> << >> ]
    /\ gr_paths = << >>

\* a call of get_downstream_ops(operator); the functions are pure, so one
\* call per graph shows all they do
get_downstream_ops(operator) ==
    /\ gr_call = "none"
    /\ gr_call' = "downstream"
    /\ gr_arg' = operator
    /\ LET r == DownstreamLoop(gr_wires, OutputOwners(gr_wires, operator), 1) IN
       IF r.err THEN gr_ret' = GraphError
       ELSE \E list \in RemoveDuplicates(r.list) :
                gr_ret' = [ err |-> FALSE, list |-> list ]
    /\ UNCHANGED << gr_wires, gr_end, gr_paths >>

\* a call of get_upstream_ops(operator)
get_upstream_ops(operator) ==
    /\ gr_call = "none"
    /\ gr_call' = "upstream"
    /\ gr_arg' = operator
    /\ LET r == UpstreamLoop(gr_wires, InputSources(gr_wires, operator), 1) IN
       IF r.err THEN gr_ret' = GraphError
       ELSE \E list \in RemoveDuplicates(r.list) :
                gr_ret' = [ err |-> FALSE, list |-> list ]
    /\ UNCHANGED << gr_wires, gr_end, gr_paths >>

\* a call of find_paths(start_op, end_op)
find_paths_call(start_op, end_op) ==
    /\ gr_call = "none"
    /\ gr_call' = "find_paths"
    /\ gr_arg' = start_op
    /\ gr_end' = end_op
    /\ gr_paths' = find_paths(gr_wires, start_op, end_op, {})
    /\ UNCHANGED << gr_wires, gr_ret >>

GraphStep ==
    \/ \E operator \in GraphOps : get_downstream_ops(operator)
    \/ \E operator \in GraphOps : get_upstream_ops(operator)
    \/ \E start_op \in GraphOps, end_op \in GraphOps :
         find_paths_call(start_op, end_op)

(***************************************************************************)
(* safe_rewire_network                                                     *)
(***************************************************************************)
\* the operator to replace, its replacement and a third operator of the
\* network that can feed them and be fed by them
RwOld == 1
RwNew == 2
RwThird == 3
RewireOps == { RwOld, RwNew, RwThird }

\* the network before the call: any wiring of the three operators in which
\* no operator feeds itself through one wire
RewireInit ==
    /\ \E n \in 0..MaxRewireInputs :
         \E old_in \in [ 1..MaxRewireInputs -> { None, RwNew, RwThird } ],
            new_in \in [ 1..n -> { None, RwOld, RwThird } ],
            third_in \in [ 1..MaxRewireInputs -> { None, RwOld, RwNew } ] :
                rw_conn = [ o \in RewireOps |->
                              IF o = RwOld THEN old_in
                              ELSE IF o = RwNew THEN new_in ELSE third_in ]
    /\ rw_conn0 = rw_conn
    /\ rw_exists = RewireOps
    /\ rw_pc = "start"
    /\ rw_input_connections = << >>
    /\ rw_output_connections = << >>
    /\ rw_k = 1
    /\ rw_ret = << "pending", "" >>

RewireIdle ==
    /\ rw_conn = [ o \in RewireOps |-> << >> ]
    /\ rw_conn0 = rw_conn
    /\ rw_exists = RewireOps
    /\ rw_pc = "start"
    /\ rw_input_connections = << >>
    /\ rw_output_connections = << >>
    /\ rw_k = 1
    /\ rw_ret = << "pending", "" >>

\* for i, connector in enumerate(old_op.inputConnectors): the pairs
\* (source, index) of the connected inputs, by index
RECURSIVE InputConnections(_, _, _)
InputConnections(conn, o, i) ==
    IF i > Len(conn[o]) THEN << >>
    ELSE (IF conn[o][i] # None THEN << << conn[o][i], i >> >> ELSE << >>)
         \o InputConnections(conn, o, i + 1)

\* the input connectors (owner, index) that operator o feeds, as found
\* through o.outputConnectors
RECURSIVE ConnectorsFedBy(_, _, _, _)
ConnectorsFedBy(conn, o, owners, i) ==
    IF owners = << >> THEN << >>
    ELSE IF i > Len(conn[Head(owners)]) THEN ConnectorsFedBy(conn, o, Tail(owners), 1)
    ELSE (IF conn[Head(owners)][i] = o THEN << << Head(owners), i >> >> ELSE << >>)
         \o ConnectorsFedBy(conn, o, owners, i + 1)

OutputConnections(conn, o) == ConnectorsFedBy(conn, o, << RwOld, RwNew, RwThird >>, 1)

\* the input of new_op that gets the source, were it always the first
RewireInputIndex_first(index) == 1

\* new_op.inputConnectors[index]
RewireInputIndex(index) == index

\* op(old_op_path), the two early returns and the two collecting loops
rw_start(found, new_op) ==
    /\ rw_pc = "start"
    /\ IF ~ found
       THEN /\ rw_ret' = << "False", "Old operator not found" >>
            /\ rw_pc' = "done"
            /\ UNCHANGED << rw_input_connections, rw_output_connections >>
       ELSE IF new_op = None
       THEN /\ rw_ret' = << "False", "New operator is None" >>
            /\ rw_pc' = "done"
            /\ UNCHANGED << rw_input_connections, rw_output_connections >>
       ELSE /\ rw_input_connections' = InputConnections(rw_conn, RwOld, 1)
            /\ rw_output_connections' = OutputConnections(rw_conn, RwOld)
            /\ rw_pc' = "inputs"
            /\ UNCHANGED rw_ret
    /\ UNCHANGED << rw_conn, rw_conn0, rw_exists, rw_k >>

\* one iteration of "for source, index in input_connections", or its end;
\* a connect() that raises ends the call in the except clause
rw_inputs ==
    /\ rw_pc = "inputs"
    /\ IF rw_k <= Len(rw_input_connections)
       THEN LET source == rw_input_connections[rw_k][1]
                index == rw_input_connections[rw_k][2]
            IN IF index <= Len(rw_conn[RwNew])
               THEN \/ /\ rw_conn' = [ rw_conn EXCEPT
                                 ![RwNew][RewireInputIndex(index)] = source ]
                       /\ rw_k' = rw_k + 1
                       /\ UNCHANGED << rw_pc, rw_ret >>
                    \/ /\ rw_ret' = << "False", "Rewiring failed" >>
                       /\ rw_pc' = "done"
                       /\ UNCHANGED << rw_conn, rw_k >>
               ELSE /\ rw_k' = rw_k + 1
                    /\ UNCHANGED << rw_conn, rw_pc, rw_ret >>
       ELSE /\ rw_pc' = "outputs"
            /\ rw_k' = 1
            /\ UNCHANGED << rw_conn, rw_ret >>
    /\ UNCHANGED << rw_conn0, rw_exists, rw_input_connections,
                    rw_output_connections >>

\* one iteration of "for target in output_connections", or its end: the
\* first connector of target.owner still fed by old_op goes to new_op
rw_outputs ==
    /\ rw_pc = "outputs"
    /\ IF rw_k <= Len(rw_output_connections)
       THEN LET owner == rw_output_connections[rw_k][1]
                hits == { i \in 1..Len(rw_conn[owner]) : rw_conn[owner][i] = RwOld }
            IN IF hits # {}
               THEN LET i == CHOOSE j \in hits : \A h \in hits : j <= h IN
                    \/ /\ rw_conn' = HostConnect(HostDisconnect(rw_conn, owner, i),
                                                owner, i, RwNew)
                       /\ rw_k' = rw_k + 1
                       /\ UNCHANGED << rw_pc, rw_ret >>
                    \/ /\ rw_conn' = HostDisconnect(rw_conn, owner, i)
                       /\ rw_ret' = << "False", "Rewiring failed" >>
                       /\ rw_pc' = "done"
                       /\ UNCHANGED rw_k
               ELSE /\ rw_k' = rw_k + 1
                    /\ UNCHANGED << rw_conn, rw_pc, rw_ret >>
       ELSE /\ rw_pc' = "destroy"
            /\ UNCHANGED << rw_conn, rw_k, rw_ret >>
    /\ UNCHANGED << rw_conn0, rw_exists, rw_input_connections,
                    rw_output_connections >>

\* old_op.destroy(): the operator and all its wires leave the network
rw_destroy ==
    /\ rw_pc = "destroy"
    /\ rw_exists' = rw_exists \ { RwOld }
    /\ rw_conn' = [ o \in RewireOps |->
                     [ i \in 1..Len(rw_conn[o]) |->
                         IF o = RwOld \/ rw_conn[o][i] = RwOld THEN None
                         ELSE rw_conn[o][i] ] ]
    /\ rw_ret' = << "True", "Rewiring successful" >>
    /\ rw_pc' = "done"
    /\ UNCHANGED << rw_conn0, rw_input_connections, rw_output_connections,
                    rw_k >>

RewireStep ==
    \/ \E found \in BOOLEAN, new_op \in { None, RwNew } : rw_start(found, new_op)
    \/ rw_inputs
    \/ rw_outputs
    \/ rw_destroy

(***************************************************************************)
(* NetworkState                                                            *)
(***************************************************************************)
\* the operator that is saved and restored, and an operator that is never
\* passed to save_operator_state (of the latter only nodeX is kept)
NsOp == 1
NsOther == 2

NodePositions == 0..MaxNodePos

\* the parameters of the saved operator
NsPars == { "period", "amp" }

StateInit ==
    /\ ns_nodeX = [ o \in { NsOp, NsOther } |-> 0 ]
    /\ ns_nodeY = 0
    /\ ns_par = [ p \in NsPars |-> 0 ]
    /\ ns_readOnly \in SUBSET NsPars
    /\ ns_evalFails \in SUBSET NsPars
    /\ ns_state = << >>
    /\ ns_saved = << >>
    /\ ns_call = << "none", None >>
    /\ ns_ret = "none"

StateIdle ==
    /\ ns_nodeX = [ o \in { NsOp, NsOther } |-> 0 ]
    /\ ns_nodeY = 0
    /\ ns_par = [ p \in NsPars |-> 0 ]
    /\ ns_readOnly = {}
    /\ ns_evalFails = {}
    /\ ns_state = << >>
    /\ ns_saved = << >>
    /\ ns_call = << "none", None >>
    /\ ns_ret = "none"

\* op_state['position'][0]
RestoredNodeY_fromX(position) == position[1]

\* op_state['position'][1]
RestoredNodeY(position) == position[2]

\* save_operator_state(operator); ns_saved keeps every value of the operator
\* at that moment, also of the parameters whose eval() raised
save_operator_state(operator) ==
    /\ IF operator = None
       THEN UNCHANGED << ns_state, ns_saved >>
       ELSE /\ ns_state' = [ path \in { operator } |->
                  [ position |-> << ns_nodeX[operator], ns_nodeY >>,
                    parameters |-> [ p \in NsPars \ ns_evalFails |-> ns_par[p] ] ] ]
            /\ ns_saved' = [ path \in { operator } |->
                  [ nodeX |-> ns_nodeX[operator], nodeY |-> ns_nodeY,
                    par |-> ns_par ] ]
    /\ ns_call' = << "save", operator >>
    /\ ns_ret' = "None"
    /\ UNCHANGED << ns_nodeX, ns_nodeY, ns_par, ns_readOnly, ns_evalFails >>

\* op1.nodeX = value, from outside NetworkState
ns_set_nodeX(value) ==
    /\ ns_nodeX' = [ ns_nodeX EXCEPT ![NsOp] = value ]
    /\ ns_call' = << "none", None >>
    /\ ns_ret' = "none"
    /\ UNCHANGED << ns_nodeY, ns_par, ns_readOnly, ns_evalFails, ns_state,
                    ns_saved >>

\* op1.nodeY = value, from outside NetworkState
ns_set_nodeY(value) ==
    /\ ns_nodeY' = value
    /\ ns_call' = << "none", None >>
    /\ ns_ret' = "none"
    /\ UNCHANGED << ns_nodeX, ns_par, ns_readOnly, ns_evalFails, ns_state,
                    ns_saved >>

\* the value of a parameter of op1 changes, from outside NetworkState
ns_set_par(par_name, value) ==
    /\ ns_par' = [ ns_par EXCEPT ![par_name] = value ]
    /\ ns_call' = << "none", None >>
    /\ ns_ret' = "none"
    /\ UNCHANGED << ns_nodeX, ns_nodeY, ns_readOnly, ns_evalFails, ns_state,
                    ns_saved >>

\* restore_operator_state(operator): setattr on a parameter that refuses the
\* assignment raises and is passed over
restore_operator_state(operator) ==
    /\ ns_call' = << "restore", operator >>
    /\ IF operator = None \/ operator \notin DOMAIN ns_state
       THEN /\ ns_ret' = "False"
            /\ UNCHANGED << ns_nodeX, ns_nodeY, ns_par >>
       ELSE LET op_state == ns_state[operator] IN
            /\ ns_nodeX' = [ ns_nodeX EXCEPT ![operator] = op_state.position[1] ]
            /\ ns_nodeY' = RestoredNodeY(op_state.position)
            /\ ns_par' = [ p \in NsPars |->
                  IF p \in DOMAIN op_state.parameters /\ p \notin ns_readOnly
                  THEN op_state.parameters[p] ELSE ns_par[p] ]
            /\ ns_ret' = "True"
    /\ UNCHANGED << ns_readOnly, ns_evalFails, ns_state, ns_saved >>

StateStep ==
    \/ \E operator \in { None, NsOp } : save_operator_state(operator)
    \/ \E value \in NodePositions : ns_set_nodeX(value)
    \/ \E value \in NodePositions : ns_set_nodeY(value)
    \/ \E par_name \in NsPars, value \in ParValues : ns_set_par(par_name, value)
    \/ \E operator \in { None, NsOp, NsOther } : restore_operator_state(operator)

(***************************************************************************)
(* CachedIterator                                                          *)
(***************************************************************************)
\* self.cache_duration = 1.0, the clock counted in seconds
cache_duration == 1

\* the lists that parent_op.children can be
ChildLists == { << >>, << 1 >>, << 1, 2 >> }

\* _cache is a pair: whether it holds a list, and the list
CacheNone == << FALSE, << >> >>

\* after CachedIterator(test_parent); ci_got, ci_invalidated, ci_read,
\* ci_read_time and ci_read_list record the calls made and the reads of the
\* parent, apart from the fields of the class
CacheInit ==
    /\ ci_time = 0
    /\ ci_children \in ChildLists
    /\ ci_cache = CacheNone
    /\ ci_cache_time = 0
    /\ ci_call = "none"
    /\ ci_ret = << >>
    /\ ci_got = FALSE
    /\ ci_invalidated = FALSE
    /\ ci_read = FALSE
    /\ ci_read_time = 0
    /\ ci_read_list = << >>

CacheIdle ==
    /\ ci_time = 0
    /\ ci_children = << >>
    /\ ci_cache = CacheNone
    /\ ci_cache_time = 0
    /\ ci_call = "none"
    /\ ci_ret = << >>
    /\ ci_got = FALSE
    /\ ci_invalidated = FALSE
    /\ ci_read = FALSE
    /\ ci_read_time = 0
    /\ ci_read_list = << >>

\* time.time() advances
ci_tick ==
    /\ ci_time < MaxTime
    /\ ci_time' = ci_time + 1
    /\ ci_call' = "tick"
    /\ UNCHANGED << ci_children, ci_cache, ci_cache_time, ci_ret, ci_got,
                    ci_invalidated, ci_read, ci_read_time, ci_read_list >>

\* children are created in or removed from the parent
ci_change(children) ==
    /\ children # ci_children
    /\ ci_children' = children
    /\ ci_call' = "change"
    /\ UNCHANGED << ci_time, ci_cache, ci_cache_time, ci_ret, ci_got,
                    ci_invalidated, ci_read, ci_read_time, ci_read_list >>

\* current_time - self._cache_time >= self.cache_duration
CacheExpired_atDuration(elapsed) == elapsed >= cache_duration

\* current_time - self._cache_time > self.cache_duration
CacheExpired(elapsed) == elapsed > cache_duration

get_children ==
    LET current_time == ci_time
        refresh == \/ ci_cache = CacheNone
                   \/ CacheExpired(current_time - ci_cache_time)
    IN /\ IF refresh
          THEN /\ ci_cache' = << TRUE, ci_children >>
               /\ ci_cache_time' = current_time
               /\ ci_read_time' = ci_time
               /\ ci_read_list' = ci_children
          ELSE UNCHANGED << ci_cache, ci_cache_time, ci_read_time, ci_read_list >>
       /\ ci_read' = refresh
       /\ ci_ret' = ci_cache'[2]
       /\ ci_call' = "get"
       /\ ci_got' = TRUE
       /\ ci_invalidated' = FALSE
       /\ UNCHANGED << ci_time, ci_children >>

invalidate ==
    /\ ci_cache' = CacheNone
    /\ ci_call' = "invalidate"
    /\ ci_invalidated' = TRUE
    /\ UNCHANGED << ci_time, ci_children, ci_cache_time, ci_ret, ci_got,
                    ci_read, ci_read_time, ci_read_list >>

CacheStep ==
    \/ ci_tick
    \/ \E children \in ChildLists : ci_change(children)
    \/ get_children
    \/ invalidate

(***************************************************************************)
(* PerformanceProfiler                                                     *)
(***************************************************************************)
\* the names given to measure()
OperationNames == { "Create Noise TOP", "Parameter Update" }

\* the elapsed times of a wrapped call, in milliseconds
ElapsedTimes == 0..MaxElapsed

LogHeader == << "Operation", "Time (ms)", "Count", "Avg (ms)" >>

RECURSIVE SumTimes(_)
SumTimes(times) ==
    IF times = << >> THEN 0 ELSE Head(times) + SumTimes(Tail(times))

\* one row of update_log: the name, total_time, count and the average, the
\* average in hundredths of a millisecond as "{avg_time:.2f}" shows it
LogRow(op_name, data) ==
    << op_name, data.total_time, data.count,
       (200 * data.total_time + data.count) \div (2 * data.count) >>

\* the rows update_log writes: the header, then one row per item of
\* measurements in the order the names were inserted
RECURSIVE LogRows(_, _)
LogRows(order, measurements) ==
    IF order = << >> THEN << >>
    ELSE << LogRow(Head(order), measurements[Head(order)]) >>
         \o LogRows(Tail(order), measurements)

ProfilerInit ==
    /\ pm_measurements = << >>
    /\ pm_order = << >>
    /\ pm_log = << LogHeader >>
    /\ pm_call = << "", "none" >>

ProfilerIdle == ProfilerInit

\* 'times' left as it is
TimesAppended_dropped(times, elapsed) == times

\* self.measurements[operation_name]['times'].append(elapsed)
TimesAppended(times, elapsed) == Append(times, elapsed)

\* a call of the wrapper of measure(operation_name) around a function that
\* returns after 'elapsed' milliseconds
wrapper_returns(operation_name, elapsed) ==
    LET known == operation_name \in DOMAIN pm_measurements
        before == IF known THEN pm_measurements[operation_name]
                  ELSE [ total_time |-> 0, count |-> 0, times |-> << >> ]
        after == [ total_time |-> before.total_time + elapsed,
                   count |-> before.count + 1,
                   times |-> TimesAppended(before.times, elapsed) ]
        measurements == [ n \in DOMAIN pm_measurements \cup { operation_name } |->
                            IF n = operation_name THEN after
                            ELSE pm_measurements[n] ]
        order == IF known THEN pm_order ELSE Append(pm_order, operation_name)
    IN /\ before.count < MaxCalls
       /\ pm_measurements' = measurements
       /\ pm_order' = order
       /\ pm_log' = << LogHeader >> \o LogRows(order, measurements)
       /\ pm_call' = << operation_name, "returned" >>

\* a call of the wrapper around a function that raises: the exception leaves
\* the wrapper at "result = func(*args, **kwargs)"
wrapper_raises(operation_name) ==
    /\ pm_call' = << operation_name, "raised" >>
    /\ UNCHANGED << pm_measurements, pm_order, pm_log >>

ProfilerStep ==
    \/ \E operation_name \in OperationNames, elapsed \in ElapsedTimes :
          wrapper_returns(operation_name, elapsed)
    \/ \E operation_name \in OperationNames : wrapper_raises(operation_name)

(***************************************************************************)
(* DebugLogger and debug_operation                                         *)
(***************************************************************************)
\* what the wrapped function does: it returns, it raises an exception of a
\* class derived from Exception (the ValueError of test_function), or it
\* raises one that is not (KeyboardInterrupt, SystemExit)
FuncOutcomes == { "returns", "Exception", "BaseException" }

\* log_dat.text as the sequence of its lines, each a pair (level, message);
\* the timestamp of a line is left out
DebugInit ==
    /\ dl_text = << << "", "=== Debug Log Started ===" >> >>
    /\ dl_pc = "idle"
    /\ dl_func = "none"
    /\ dl_calls = 0
    /\ dl_ret = "none"

DebugIdle == DebugInit

\* self.log_dat.text = log_entry
LogAppended_replace(text, level, message) == << << level, message >> >>

\* DebugLogger.log: self.log_dat.text += log_entry
LogAppended(text, level, message) == Append(text, << level, message >>)

\* wrapper, up to the call of func: logger.info("Calling ...")
wrapper_enter(outcome) ==
    /\ dl_pc = "idle"
    /\ dl_calls < MaxDebugCalls
    /\ dl_calls' = dl_calls + 1
    /\ dl_text' = LogAppended(dl_text, "INFO", "Calling")
    /\ dl_func' = outcome
    /\ dl_pc' = "func"
    /\ dl_ret' = "pending"

\* func returns: logger.info("... completed successfully"); return result
wrapper_return ==
    /\ dl_pc = "func"
    /\ dl_func = "returns"
    /\ dl_text' = LogAppended(dl_text, "INFO", "completed successfully")
    /\ dl_ret' = "result"
    /\ dl_pc' = "idle"
    /\ UNCHANGED << dl_func, dl_calls >>

\* func raises and "except Exception" takes it: logger.error("... failed");
\* raise
wrapper_except ==
    /\ dl_pc = "func"
    /\ dl_func = "Exception"
    /\ dl_text' = LogAppended(dl_text, "ERROR", "failed")
    /\ dl_ret' = "raised Exception"
    /\ dl_pc' = "idle"
    /\ UNCHANGED << dl_func, dl_calls >>

\* func raises and "except Exception" does not take it: the exception leaves
\* the wrapper
wrapper_uncaught ==
    /\ dl_pc = "func"
    /\ dl_func = "BaseException"
    /\ dl_ret' = "raised BaseException"
    /\ dl_pc' = "idle"
    /\ UNCHANGED << dl_text, dl_func, dl_calls >>

DebugStep ==
    \/ \E outcome \in FuncOutcomes : wrapper_enter(outcome)
    \/ wrapper_return
    \/ wrapper_except
    \/ wrapper_uncaught

(***************************************************************************)
(* pipeline_execute: onFrameStart                                          *)
(***************************************************************************)
\* "if source.numRows > 100"
TableLimit == 100

\* "if frame % 10 == 0"
FramePeriod == 10

\* the table as the sequence of its rows, row 0 first.  A row is written as
\* a number: 0 the header, a negative number a data row that was in the table
\* before the first call (older rows lower), and the frame number for a row
\* appended by onFrameStart.
InitialTable(numRows) == [ i \in 1..numRows |-> IF i = 1 THEN 0 ELSE i - 1 - numRows ]

FrameInit ==
    /\ \E numRows \in 1..TableLimit : fs_table = InitialTable(numRows)
    /\ fs_frame = 0

FrameIdle ==
    /\ fs_table = << 0 >>
    /\ fs_frame = 0

\* the first row of the table removed, whatever the index
DeleteRow_first(table, index) == Tail(table)

\* source.deleteRow(index), rows counted from 0
DeleteRow(table, index) ==
    SubSeq(table, 1, index) \o SubSeq(table, index + 2, Len(table))

\* the host calls onFrameStart with the next frame number
onFrameStart(frame) ==
    /\ frame = fs_frame + 1
    /\ frame <= MaxFrame
    /\ fs_frame' = frame
    /\ IF frame % FramePeriod = 0
       THEN LET appended == Append(fs_table, frame)
            IN fs_table' = IF Len(appended) > TableLimit
                           THEN DeleteRow(appended, 1)
                           ELSE appended
       ELSE UNCHANGED fs_table

FrameStep == \E frame \in 1..MaxFrame : onFrameStart(frame)

(***************************************************************************)
(* create_from_json                                                        *)
(***************************************************************************)
\* the keys of type_map
TypeMap == { "noise", "level", "blur" }

\* the 'type' of an operator description: a key of type_map or another string
DescriptionTypes == TypeMap \cup { "text" }

\* the lists json_data['project']['operators'] can be, each description
\* written as its 'type'
RECURSIVE DescriptionLists(_)
DescriptionLists(n) ==
    IF n = 0 THEN { << >> }
    ELSE LET shorter == DescriptionLists(n - 1)
         IN shorter \cup { Append(l, t) : l \in shorter, t \in DescriptionTypes }

\* the operator created from the description of index i (counted from 0) is
\* written i + 1; cj_input0 is what feeds input 0 of each created operator.
\* Positions and parameters of the new operators are left out.
JsonInit ==
    /\ cj_operators \in DescriptionLists(MaxDescriptions)
    /\ cj_i = 0
    /\ cj_created_ops = << >>
    /\ cj_input0 = << >>
    /\ cj_pc = "loop"

JsonIdle ==
    /\ cj_operators = << >>
    /\ cj_i = 0
    /\ cj_created_ops = << >>
    /\ cj_input0 = << >>
    /\ cj_pc = "loop"

\* one iteration of "for i, op_desc in enumerate(...)"; connecting an
\* operator to its own input either makes the wire or raises in the host
cj_iterate ==
    /\ cj_pc = "loop"
    /\ cj_i < Len(cj_operators)
    /\ LET i == cj_i
           op_type == cj_operators[i + 1]
           new_op == i + 1
           appended_ops == Append(cj_created_ops, new_op)
           previous_at == PyIndex(i - 1, Len(appended_ops))
       IN IF op_type \in TypeMap
          THEN /\ cj_created_ops' = appended_ops
               /\ IF i > 0
                  THEN IF previous_at = 0
                       THEN /\ cj_pc' = "IndexError"
                            /\ cj_input0' = cj_input0 \o << None >>
                       ELSE \/ /\ cj_input0' = cj_input0 \o << appended_ops[previous_at] >>
                               /\ cj_pc' = "loop"
                            \/ /\ appended_ops[previous_at] = new_op
                               /\ cj_input0' = cj_input0 \o << None >>
                               /\ cj_pc' = "connect raised"
                  ELSE /\ cj_input0' = cj_input0 \o << None >>
                       /\ cj_pc' = "loop"
          ELSE UNCHANGED << cj_created_ops, cj_input0, cj_pc >>
    /\ cj_i' = cj_i + 1
    /\ UNCHANGED cj_operators

\* return created_ops
cj_return ==
    /\ cj_pc = "loop"
    /\ cj_i = Len(cj_operators)
    /\ cj_pc' = "returned"
    /\ UNCHANGED << cj_operators, cj_i, cj_created_ops, cj_input0 >>

JsonStep ==
    \/ cj_iterate
    \/ cj_return

(***************************************************************************)
(* Specifications                                                          *)
(***************************************************************************)
InitPool ==
    /\ PoolInit
    /\ ParamIdle
    /\ RetryIdle
    /\ FallbackIdle
    /\ CleanupIdle
    /\ BatchIdle
    /\ ConnectIdle
    /\ InsertIdle
    /\ GraphIdle
    /\ RewireIdle
    /\ StateIdle
    /\ CacheIdle
    /\ ProfilerIdle
    /\ DebugIdle
    /\ FrameIdle
    /\ JsonIdle
NextPool ==
    PoolStep /\ UNCHANGED << paramVars, retryVars, fallbackVars, cleanupVars,
                 batchVars, connectVars, insertVars, graphVars,
                 rewireVars, stateVars, cacheVars, profilerVars,
                 debugVars, frameVars, jsonVars >>
SpecPool == InitPool /\ [][NextPool]_vars

InitParam ==
    /\ PoolIdle
    /\ ParamInit
    /\ RetryIdle
    /\ FallbackIdle
    /\ CleanupIdle
    /\ BatchIdle
    /\ ConnectIdle
    /\ InsertIdle
    /\ GraphIdle
    /\ RewireIdle
    /\ StateIdle
    /\ CacheIdle
    /\ ProfilerIdle
    /\ DebugIdle
    /\ FrameIdle
    /\ JsonIdle
NextParam ==
    ParamStep /\ UNCHANGED << poolVars, retryVars, fallbackVars, cleanupVars,
                 batchVars, connectVars, insertVars, graphVars,
                 rewireVars, stateVars, cacheVars, profilerVars,
                 debugVars, frameVars, jsonVars >>
SpecParam == InitParam /\ [][NextParam]_vars

InitRetry ==
    /\ PoolIdle
    /\ ParamIdle
    /\ RetryInit
    /\ FallbackIdle
    /\ CleanupIdle
    /\ BatchIdle
    /\ ConnectIdle
    /\ InsertIdle
    /\ GraphIdle
    /\ RewireIdle
    /\ StateIdle
    /\ CacheIdle
    /\ ProfilerIdle
    /\ DebugIdle
    /\ FrameIdle
    /\ JsonIdle
NextRetry ==
    RetryStep /\ UNCHANGED << poolVars, paramVars, fallbackVars, cleanupVars,
                 batchVars, connectVars, insertVars, graphVars,
                 rewireVars, stateVars, cacheVars, profilerVars,
                 debugVars, frameVars, jsonVars >>
SpecRetry == InitRetry /\ [][NextRetry]_vars

\* the loop of create_with_fallback runs synchronously to its end
InitFallback ==
    /\ PoolIdle
    /\ ParamIdle
    /\ RetryIdle
    /\ FallbackInit
    /\ CleanupIdle
    /\ BatchIdle
    /\ ConnectIdle
    /\ InsertIdle
    /\ GraphIdle
    /\ RewireIdle
    /\ StateIdle
    /\ CacheIdle
    /\ ProfilerIdle
    /\ DebugIdle
    /\ FrameIdle
    /\ JsonIdle
NextFallback ==
    FallbackStep /\ UNCHANGED << poolVars, paramVars, retryVars, cleanupVars,
                 batchVars, connectVars, insertVars, graphVars,
                 rewireVars, stateVars, cacheVars, profilerVars,
                 debugVars, frameVars, jsonVars >>
SpecFallback == InitFallback /\ [][NextFallback]_vars /\ WF_vars(NextFallback)

InitCleanup ==
    /\ PoolIdle
    /\ ParamIdle
    /\ RetryIdle
    /\ FallbackIdle
    /\ CleanupInit
    /\ BatchIdle
    /\ ConnectIdle
    /\ InsertIdle
    /\ GraphIdle
    /\ RewireIdle
    /\ StateIdle
    /\ CacheIdle
    /\ ProfilerIdle
    /\ DebugIdle
    /\ FrameIdle
    /\ JsonIdle
NextCleanup ==
    CleanupStep /\ UNCHANGED << poolVars, paramVars, retryVars, fallbackVars,
                 batchVars, connectVars, insertVars, graphVars,
                 rewireVars, stateVars, cacheVars, profilerVars,
                 debugVars, frameVars, jsonVars >>
SpecCleanup == InitCleanup /\ [][NextCleanup]_vars

InitBatch ==
    /\ PoolIdle
    /\ ParamIdle
    /\ RetryIdle
    /\ FallbackIdle
    /\ CleanupIdle
    /\ BatchInit
    /\ ConnectIdle
    /\ InsertIdle
    /\ GraphIdle
    /\ RewireIdle
    /\ StateIdle
    /\ CacheIdle
    /\ ProfilerIdle
    /\ DebugIdle
    /\ FrameIdle
    /\ JsonIdle
NextBatch ==
    BatchStep /\ UNCHANGED << poolVars, paramVars, retryVars, fallbackVars,
                 cleanupVars, connectVars, insertVars, graphVars,
                 rewireVars, stateVars, cacheVars, profilerVars,
                 debugVars, frameVars, jsonVars >>
SpecBatch == InitBatch /\ [][NextBatch]_vars

InitConnect ==
    /\ PoolIdle
    /\ ParamIdle
    /\ RetryIdle
    /\ FallbackIdle
    /\ CleanupIdle
    /\ BatchIdle
    /\ ConnectInit
    /\ InsertIdle
    /\ GraphIdle
    /\ RewireIdle
    /\ StateIdle
    /\ CacheIdle
    /\ ProfilerIdle
    /\ DebugIdle
    /\ FrameIdle
    /\ JsonIdle
NextConnect ==
    ConnectStep /\ UNCHANGED << poolVars, paramVars, retryVars, fallbackVars,
                 cleanupVars, batchVars, insertVars, graphVars,
                 rewireVars, stateVars, cacheVars, profilerVars,
                 debugVars, frameVars, jsonVars >>
SpecConnect == InitConnect /\ [][NextConnect]_vars

InitInsert ==
    /\ PoolIdle
    /\ ParamIdle
    /\ RetryIdle
    /\ FallbackIdle
    /\ CleanupIdle
    /\ BatchIdle
    /\ ConnectIdle
    /\ InsertInit
    /\ GraphIdle
    /\ RewireIdle
    /\ StateIdle
    /\ CacheIdle
    /\ ProfilerIdle
    /\ DebugIdle
    /\ FrameIdle
    /\ JsonIdle
NextInsert ==
    InsertStep /\ UNCHANGED << poolVars, paramVars, retryVars, fallbackVars,
                 cleanupVars, batchVars, connectVars, graphVars,
                 rewireVars, stateVars, cacheVars, profilerVars,
                 debugVars, frameVars, jsonVars >>
SpecInsert == InitInsert /\ [][NextInsert]_vars

InitGraph ==
    /\ PoolIdle
    /\ ParamIdle
    /\ RetryIdle
    /\ FallbackIdle
    /\ CleanupIdle
    /\ BatchIdle
    /\ ConnectIdle
    /\ InsertIdle
    /\ GraphInit
    /\ RewireIdle
    /\ StateIdle
    /\ CacheIdle
    /\ ProfilerIdle
    /\ DebugIdle
    /\ FrameIdle
    /\ JsonIdle
NextGraph ==
    GraphStep /\ UNCHANGED << poolVars, paramVars, retryVars, fallbackVars,
                 cleanupVars, batchVars, connectVars, insertVars,
                 rewireVars, stateVars, cacheVars, profilerVars,
                 debugVars, frameVars, jsonVars >>
SpecGraph == InitGraph /\ [][NextGraph]_vars

InitRewire ==
    /\ PoolIdle
    /\ ParamIdle
    /\ RetryIdle
    /\ FallbackIdle
    /\ CleanupIdle
    /\ BatchIdle
    /\ ConnectIdle
    /\ InsertIdle
    /\ GraphIdle
    /\ RewireInit
    /\ StateIdle
    /\ CacheIdle
    /\ ProfilerIdle
    /\ DebugIdle
    /\ FrameIdle
    /\ JsonIdle
NextRewire ==
    RewireStep /\ UNCHANGED << poolVars, paramVars, retryVars, fallbackVars,
                 cleanupVars, batchVars, connectVars, insertVars,
                 graphVars, stateVars, cacheVars, profilerVars,
                 debugVars, frameVars, jsonVars >>
SpecRewire == InitRewire /\ [][NextRewire]_vars

InitState ==
    /\ PoolIdle
    /\ ParamIdle
    /\ RetryIdle
    /\ FallbackIdle
    /\ CleanupIdle
    /\ BatchIdle
    /\ ConnectIdle
    /\ InsertIdle
    /\ GraphIdle
    /\ RewireIdle
    /\ StateInit
    /\ CacheIdle
    /\ ProfilerIdle
    /\ DebugIdle
    /\ FrameIdle
    /\ JsonIdle
NextState ==
    StateStep /\ UNCHANGED << poolVars, paramVars, retryVars, fallbackVars,
                 cleanupVars, batchVars, connectVars, insertVars,
                 graphVars, rewireVars, cacheVars, profilerVars,
                 debugVars, frameVars, jsonVars >>
SpecState == InitState /\ [][NextState]_vars

InitCache ==
    /\ PoolIdle
    /\ ParamIdle
    /\ RetryIdle
    /\ FallbackIdle
    /\ CleanupIdle
    /\ BatchIdle
    /\ ConnectIdle
    /\ InsertIdle
    /\ GraphIdle
    /\ RewireIdle
    /\ StateIdle
    /\ CacheInit
    /\ ProfilerIdle
    /\ DebugIdle
    /\ FrameIdle
    /\ JsonIdle
NextCache ==
    CacheStep /\ UNCHANGED << poolVars, paramVars, retryVars, fallbackVars,
                 cleanupVars, batchVars, connectVars, insertVars,
                 graphVars, rewireVars, stateVars, profilerVars,
                 debugVars, frameVars, jsonVars >>
SpecCache == InitCache /\ [][NextCache]_vars

InitProfiler ==
    /\ PoolIdle
    /\ ParamIdle
    /\ RetryIdle
    /\ FallbackIdle
    /\ CleanupIdle
    /\ BatchIdle
    /\ ConnectIdle
    /\ InsertIdle
    /\ GraphIdle
    /\ RewireIdle
    /\ StateIdle
    /\ CacheIdle
    /\ ProfilerInit
    /\ DebugIdle
    /\ FrameIdle
    /\ JsonIdle
NextProfiler ==
    ProfilerStep /\ UNCHANGED << poolVars, paramVars, retryVars, fallbackVars,
                 cleanupVars, batchVars, connectVars, insertVars,
                 graphVars, rewireVars, stateVars, cacheVars,
                 debugVars, frameVars, jsonVars >>
SpecProfiler == InitProfiler /\ [][NextProfiler]_vars

InitDebug ==
    /\ PoolIdle
    /\ ParamIdle
    /\ RetryIdle
    /\ FallbackIdle
    /\ CleanupIdle
    /\ BatchIdle
    /\ ConnectIdle
    /\ InsertIdle
    /\ GraphIdle
    /\ RewireIdle
    /\ StateIdle
    /\ CacheIdle
    /\ ProfilerIdle
    /\ DebugInit
    /\ FrameIdle
    /\ JsonIdle
NextDebug ==
    DebugStep /\ UNCHANGED << poolVars, paramVars, retryVars, fallbackVars,
                 cleanupVars, batchVars, connectVars, insertVars,
                 graphVars, rewireVars, stateVars, cacheVars,
                 profilerVars, frameVars, jsonVars >>
SpecDebug == InitDebug /\ [][NextDebug]_vars

InitFrame ==
    /\ PoolIdle
    /\ ParamIdle
    /\ RetryIdle
    /\ FallbackIdle
    /\ CleanupIdle
    /\ BatchIdle
    /\ ConnectIdle
    /\ InsertIdle
    /\ GraphIdle
    /\ RewireIdle
    /\ StateIdle
    /\ CacheIdle
    /\ ProfilerIdle
    /\ DebugIdle
    /\ FrameInit
    /\ JsonIdle
NextFrame ==
    FrameStep /\ UNCHANGED << poolVars, paramVars, retryVars, fallbackVars,
                 cleanupVars, batchVars, connectVars, insertVars,
                 graphVars, rewireVars, stateVars, cacheVars,
                 profilerVars, debugVars, jsonVars >>
SpecFrame == InitFrame /\ [][NextFrame]_vars

InitJson ==
    /\ PoolIdle
    /\ ParamIdle
    /\ RetryIdle
    /\ FallbackIdle
    /\ CleanupIdle
    /\ BatchIdle
    /\ ConnectIdle
    /\ InsertIdle
    /\ GraphIdle
    /\ RewireIdle
    /\ StateIdle
    /\ CacheIdle
    /\ ProfilerIdle
    /\ DebugIdle
    /\ FrameIdle
    /\ JsonInit
NextJson ==
    JsonStep /\ UNCHANGED << poolVars, paramVars, retryVars, fallbackVars,
                 cleanupVars, batchVars, connectVars, insertVars,
                 graphVars, rewireVars, stateVars, cacheVars,
                 profilerVars, debugVars, frameVars >>
SpecJson == InitJson /\ [][NextJson]_vars

(***************************************************************************)
(* Properties                                                              *)
(***************************************************************************)
\* C1: with pool_size = N, after construction and any sequence of acquire
\* and release calls, len(available) + len(in_use) = N, no operator occurs
\* twice in a list or in both lists, and len(in_use) <= N.
PoolNeverExceedsSize ==
    /\ Len(available) + Len(in_use) = pool_size
    /\ NoDuplicates(available)
    /\ NoDuplicates(in_use)
    /\ Elems(available) \cap Elems(in_use) = {}
    /\ Len(in_use) <= pool_size

PoolWitness ==
    /\ pool_call = "release"
    /\ Len(in_use) >= 1
    /\ Len(available) >= 2
    /\ ListLast(available) # Len(available) + Len(in_use)

\* C2: acquire() on an empty available list returns None, creates no
\* operator and leaves both lists unchanged; otherwise it moves exactly one
\* operator from available to in_use, clears its bypass and returns it.
AcquireContract ==
    [][ pool_call' = "acquire" =>
          IF available = << >>
          THEN /\ pool_ret' = None
               /\ pool_created' = pool_created
               /\ available' = available
               /\ in_use' = in_use
          ELSE \E o \in Elems(available) :
               /\ Elems(available') = Elems(available) \ {o}
               /\ Len(available') = Len(available) - 1
               /\ Elems(in_use') = Elems(in_use) \cup {o}
               /\ Len(in_use') = Len(in_use) + 1
               /\ bypass'[o] = FALSE
               /\ pool_ret' = o
               /\ pool_created' = pool_created ]_vars

AcquireWitness ==
    /\ pool_call = "acquire"
    /\ pool_ret # None
    /\ Len(in_use) >= 2
    /\ bypass[pool_ret] = FALSE

\* C3: safe_parameter_set never propagates an exception; with a None
\* operator, a missing parameter or a read-only parameter it returns False
\* and leaves every parameter value unchanged; it returns True only when
\* the parameter now holds the given value.
SafeParameterSetContract ==
    [][ /\ sp_exc' = "none"
        /\ sp_ret' \in { "True", "False" }
        /\ ( \/ sp_operator' = None
             \/ sp_param_name' \notin ParNames
             \/ par_isReadOnly[sp_param_name'] )
           => sp_ret' = "False" /\ par_val' = par_val
        /\ sp_ret' = "True" =>
              /\ sp_param_name' \in ParNames
              /\ par_val'[sp_param_name'] = sp_value' ]_vars

SafeParameterSetWitness ==
    /\ sp_ret = "False"
    /\ sp_operator # None
    /\ sp_param_name \in ParNames
    /\ par_isReadOnly[sp_param_name]
    /\ \E n \in ParNames : par_val[n] # 0

FallbackContract ==
    /\ [] ( /\ Len(fb_tried) <= 10
            /\ \A i \in 1..Len(fb_tried) :
                 fb_tried[i] = IF i = 1 THEN << "fallback_test" >>
                                      ELSE << "fallback_test", i - 1 >>
            /\ Len(fb_created) <= 1
            /\ fb_created # << >> =>
                 fb_pc = "done" /\ fb_created[1] = ListLast(fb_tried)
            /\ fb_pc = "done" =>
                 IF fb_created # << >>
                 THEN fb_ret = fb_created[1]
                 ELSE fb_ret = << "None" >> /\ Len(fb_tried) = 10 )
    /\ <> (fb_pc = "done")

FallbackWitness ==
    /\ fb_pc = "done"
    /\ fb_ret = << "fallback_test", 4 >>
    /\ Len(fb_tried) = 5

\* C6: whenever a step of create_network_with_cleanup raises, every
\* operator created before the failure is destroyed, none of them is left
\* in the network, and the function returns None without raising.
CleanupOnError ==
    (cl_pc = "done" /\ cl_error # "none") =>
        /\ \A i \in 1..Len(created_ops) : created_ops[i] \notin net
        /\ cl_ret = "None"

CleanupWitness ==
    /\ cl_pc = "done"
    /\ cl_error = "connect failed"
    /\ Len(created_ops) = 2
    /\ cx_pc = "enter"

\* C7: OperatorContext destroys its operator exactly when the with-body
\* raises, and then the same exception reaches the caller; after a normal
\* body the operator stays; when __enter__ fails the exception reaches the
\* caller and nothing is destroyed.
ContextDestroysIffBodyRaises ==
    cx_pc = "done" =>
        /\ cx_body = "raised" =>
              /\ cx_operator # "None"
              /\ cx_operator \notin net
              /\ cx_destroys = 1
              /\ cx_propagated = cx_pending
              /\ cx_propagated \in { "Test error", "tdError" }
        /\ cx_body = "normal" =>
              /\ cx_operator \in net
              /\ cx_destroys = 0
              /\ cx_propagated = "none"
        /\ cx_body = "none" =>
              /\ cx_propagated = "create failed"
              /\ cx_destroys = 0
              /\ net = cx_net0

ContextWitness ==
    /\ cx_pc = "done"
    /\ cx_body = "raised"
    /\ cx_propagated = "Test error"
    /\ cx_destroys = 1
    /\ cx_colorr = 1

\* C8: when operation_func raises on an operator of the list, the
\* effects on the operators processed before it are rolled back, the call
\* returns (False, completed) with completed exactly the non-None
\* operators processed successfully before the failure, in list order, and
\* no operator after the failing one is processed.
BatchRollsBack ==
    (bt_pc = "done" /\ bt_ret[1] = "False") =>
        /\ \A k \in 1..Len(completed) :
              /\ bt_w[completed[k]] = 256
              /\ bt_h[completed[k]] = 256
        /\ bt_ret[2] = completed
        /\ completed = SelectSeq(SubSeq(bt_operators, 1, bt_i - 1),
                                 LAMBDA x : x # None)
        /\ bt_called = Append(completed, bt_operators[bt_i])

\* C9: safe_connect connects only when source and target exist and
\* 0 <= input_index < number of input connectors of target, and then
\* connects source to exactly that connector; in every other case it
\* returns (False, reason) and changes no connection.
SafeConnectChecksIndex ==
    [][ LET source == IF sc_source' = "exist_noise1" THEN 1
                      ELSE IF sc_source' = "exist_blur1" THEN 2 ELSE None
            target == IF sc_target' = "exist_noise1" THEN 1
                      ELSE IF sc_target' = "exist_blur1" THEN 2 ELSE None
            valid == /\ source # None
                     /\ target # None
                     /\ sc_index' >= 0
                     /\ sc_index' < Len(sc_conn[target])
        IN /\ sc_conn' # sc_conn => valid
           /\ sc_ret'[1] = "True" =>
                 /\ valid
                 /\ sc_conn'[target][sc_index' + 1] = source
                 /\ \A o \in DOMAIN sc_conn : \A i \in 1..Len(sc_conn[o]) :
                      (o # target \/ i # sc_index' + 1) =>
                          sc_conn'[o][i] = sc_conn[o][i]
           /\ ~ valid => sc_ret'[1] = "False" /\ sc_conn' = sc_conn ]_vars

\* C10: if source feeds an input connector of target, then after
\* insert_operator_between source feeds input 0 of new_op, new_op feeds the
\* first such connector of target, the other connectors of target are
\* unchanged and the call returns True; otherwise it returns False and
\* changes no connection.
InsertBetweenContract ==
    [][ ib_pc' = "done" =>
          LET hits == { i \in 1..Len(ib_conn[2]) : ib_conn[2][i] = 1 } IN
          IF hits # {}
          THEN \E i \in hits :
                 /\ \A j \in hits : i <= j
                 /\ ib_conn'[3][1] = 1
                 /\ ib_conn'[2][i] = 3
                 /\ \A j \in 1..Len(ib_conn[2]) :
                      j # i => ib_conn'[2][j] = ib_conn[2][j]
                 /\ ib_ret' = "True"
          ELSE ib_ret' = "False" /\ ib_conn' = ib_conn ]_vars

InsertBetweenWitness ==
    /\ ib_pc = "done"
    /\ ib_ret = "True"
    /\ ib_conn[3][1] = 1
    /\ ib_conn[2][1] = 3
    /\ ib_conn[2][2] = 1

\* the operators reachable from x by one or more wires, by iteration
RECURSIVE ReachFrom(_, _)
ReachFrom(E, S) ==
    LET T == S \cup { w[2] : w \in { v \in E : v[1] \in S } }
    IN IF T = S THEN S ELSE ReachFrom(E, T)

Reachable(E, x) == ReachFrom(E, { w[2] : w \in { v \in E : v[1] = x } })

Acyclic(E) == \A x \in GraphOps : x \notin Reachable(E, x)

\* C11: on an acyclic graph get_downstream_ops(x) returns a list without
\* duplicates of exactly the operators reachable from x by one or more
\* output connections, and get_upstream_ops(x) exactly the operators from
\* which x is reachable.
TraversalsExact ==
    (Acyclic(gr_wires) /\ gr_call \in { "downstream", "upstream" }) =>
        /\ ~ gr_ret.err
        /\ \A i, j \in 1..Len(gr_ret.list) : i # j => gr_ret.list[i] # gr_ret.list[j]
        /\ gr_call = "downstream" =>
             { gr_ret.list[i] : i \in 1..Len(gr_ret.list) } = Reachable(gr_wires, gr_arg)
        /\ gr_call = "upstream" =>
             { gr_ret.list[i] : i \in 1..Len(gr_ret.list) } =
                 { a \in GraphOps : gr_arg \in Reachable(gr_wires, a) }

TraversalsWitness ==
    /\ gr_call = "downstream"
    /\ gr_wires = { << 1, 2 >>, << 1, 3 >>, << 2, 3 >> }
    /\ gr_arg = 1
    /\ gr_ret.list = << 3, 2 >>

\* the simple paths of the graph from a to b
SimplePaths(E, a, b) ==
    UNION { { p \in [ 1..n -> GraphOps ] :
                /\ p[1] = a
                /\ p[n] = b
                /\ \A i, j \in 1..n : i # j => p[i] # p[j]
                /\ \A i \in 1..(n - 1) : << p[i], p[i + 1] >> \in E }
            : n \in 1..NumGraphOps }

\* C12: every path returned by find_paths(start_op, end_op) starts at
\* start_op, ends at end_op, follows a wire at each step and has no
\* operator twice; every such path is returned; find_paths(x, x) = [[x]];
\* the result is empty when end_op is not reachable.
FindPathsExact ==
    gr_call = "find_paths" =>
        /\ { gr_paths[k] : k \in 1..Len(gr_paths) } = SimplePaths(gr_wires, gr_arg, gr_end)
        /\ gr_arg = gr_end => gr_paths = << << gr_arg >> >>
        /\ (gr_arg # gr_end /\ gr_end \notin Reachable(gr_wires, gr_arg)) => gr_paths = << >>

FindPathsWitness ==
    /\ gr_call = "find_paths"
    /\ Len(gr_paths) = 2
    /\ gr_paths[1] = << 1, 2, 3 >>
    /\ gr_paths[2] = << 1, 3 >>
    /\ << 3, 1 >> \in gr_wires

\* C20: get_downstream_ops and get_upstream_ops return on every finite
\* connection graph, also on one with a cycle.
TraversalsTerminate ==
    gr_call \in { "downstream", "upstream" } => ~ gr_ret.err

\* C13 as stated: when safe_rewire_network returns (True, ...), every source
\* that fed input i of the old operator (i below new_op's input count) feeds
\* input i of new_op, every input connector that the old operator fed is fed
\* by new_op, no connector is fed by the old operator, and the old operator
\* is destroyed; when the old operator is not found or new_op is None it
\* returns (False, reason) and changes nothing.
RewireReplaces ==
    rw_pc = "done" =>
        /\ rw_ret[1] = "True" =>
             /\ \A i \in 1..Len(rw_conn0[1]) :
                  (rw_conn0[1][i] # None /\ i <= Len(rw_conn[2])) =>
                      rw_conn[2][i] = rw_conn0[1][i]
             /\ \A o \in { 2, 3 } : \A i \in 1..Len(rw_conn0[o]) :
                  rw_conn0[o][i] = 1 => rw_conn[o][i] = 2
             /\ \A o \in { 1, 2, 3 } : \A i \in 1..Len(rw_conn[o]) :
                  rw_conn[o][i] # 1
             /\ 1 \notin rw_exists
        /\ rw_ret[2] \in { "Old operator not found", "New operator is None" } =>
             /\ rw_ret[1] = "False"
             /\ rw_conn = rw_conn0
             /\ rw_exists = { 1, 2, 3 }

\* input i of new_op was fed by the old operator and receives the source of
\* the old operator's input i
RewireTakenOver(o, i) ==
    /\ o = 2
    /\ i <= Len(rw_conn0[1])
    /\ rw_conn0[1][i] # None

\* C13 amended: as above, except that an input of new_op that the old
\* operator fed and that receives the source of the old operator's input
\* of the same index holds that source, not new_op.
RewireReplacesUnlessTakenOver ==
    rw_pc = "done" =>
        /\ rw_ret[1] = "True" =>
             /\ \A i \in 1..Len(rw_conn0[1]) :
                  (rw_conn0[1][i] # None /\ i <= Len(rw_conn[2])) =>
                      rw_conn[2][i] = rw_conn0[1][i]
             /\ \A o \in { 2, 3 } : \A i \in 1..Len(rw_conn0[o]) :
                  (rw_conn0[o][i] = 1 /\ ~ RewireTakenOver(o, i)) =>
                      rw_conn[o][i] = 2
             /\ \A o \in { 1, 2, 3 } : \A i \in 1..Len(rw_conn[o]) :
                  rw_conn[o][i] # 1
             /\ 1 \notin rw_exists
        /\ rw_ret[2] \in { "Old operator not found", "New operator is None" } =>
             /\ rw_ret[1] = "False"
             /\ rw_conn = rw_conn0
             /\ rw_exists = { 1, 2, 3 }

RewireWitness ==
    /\ rw_pc = "done"
    /\ rw_ret[1] = "True"
    /\ Len(rw_conn0[2]) >= 2
    /\ rw_conn0[1][1] = 3 /\ rw_conn0[1][2] = 2
    /\ rw_conn0[2][1] = 1 /\ rw_conn0[2][2] = 1
    /\ rw_conn0[3][1] = 1 /\ rw_conn0[3][2] = 1
    /\ rw_conn[2][1] = 3 /\ rw_conn[2][2] = 2
    /\ rw_conn[3][1] = 2 /\ rw_conn[3][2] = 2

\* C14: restore_operator_state on an operator saved before returns True and
\* leaves nodeX, nodeY and every saved parameter that accepts assignment at
\* their values at save time, whatever changed in between; on an operator
\* never saved, or on None, it returns False and modifies nothing.
RestoreGivesSavedState ==
    [][ ns_call'[1] = "restore" =>
          IF ns_call'[2] # None /\ ns_call'[2] \in DOMAIN ns_saved
          THEN LET saved == ns_saved[ns_call'[2]] IN
               /\ ns_ret' = "True"
               /\ ns_nodeX'[ns_call'[2]] = saved.nodeX
               /\ ns_nodeY' = saved.nodeY
               /\ \A p \in NsPars \ (ns_evalFails \cup ns_readOnly) :
                     ns_par'[p] = saved.par[p]
          ELSE /\ ns_ret' = "False"
               /\ UNCHANGED << ns_nodeX, ns_nodeY, ns_par, ns_state >>
      ]_vars

RestoreWitness ==
    /\ ns_call = << "restore", 1 >>
    /\ ns_ret = "True"
    /\ ns_readOnly = { "amp" }
    /\ ns_evalFails = {}
    /\ ns_saved[1] = [ nodeX |-> 1, nodeY |-> 1,
                       par |-> [ p \in NsPars |-> 1 ] ]
    /\ ns_par = [ p \in NsPars |-> IF p = "amp" THEN 2 ELSE 1 ]
    /\ ns_nodeX[1] = 1
    /\ ns_nodeY = 1

\* C15: get_children reads the parent's children exactly when it is the
\* first call, the first call after invalidate(), or more than cache_duration
\* after the last read, and then returns the children as they are; otherwise
\* it returns the list of the last read; the list it returns was read at
\* most cache_duration ago.
CacheRefreshesWhenDue ==
    [][ ci_call' = "get" =>
          LET due == \/ ~ ci_got
                     \/ ci_invalidated
                     \/ ci_time - ci_read_time > cache_duration
          IN /\ ci_read' = due
             /\ ci_ret' = (IF due THEN ci_children ELSE ci_read_list)
             /\ ci_time' - ci_read_time' <= cache_duration
      ]_vars

CacheWitness ==
    /\ ci_call = "get"
    /\ ~ ci_read
    /\ ci_time - ci_read_time = cache_duration
    /\ ci_ret = << 1 >>
    /\ ci_children = << 1, 2 >>

ProfilerEntriesConsistent ==
    \A n \in DOMAIN pm_measurements :
        /\ pm_measurements[n].count = Len(pm_measurements[n].times)
        /\ pm_measurements[n].count >= 1
        /\ pm_measurements[n].total_time = SumTimes(pm_measurements[n].times)

ProfilerLogMatches ==
    /\ pm_log[1] = LogHeader
    /\ Len(pm_log) = 1 + Cardinality(DOMAIN pm_measurements)
    /\ { pm_log[i][1] : i \in 2..Len(pm_log) } = DOMAIN pm_measurements

\* C16: after any sequence of wrapped calls every entry of measurements has
\* count = len(times) >= 1 and total_time = sum(times), the log table is the
\* header row followed by exactly one row per measured name, and a wrapped
\* call whose function raises adds no measurement and lets the exception out.
ProfilerConsistent ==
    [][ /\ ProfilerEntriesConsistent'
        /\ ProfilerLogMatches'
        /\ pm_call'[2] = "raised" =>
              UNCHANGED << pm_measurements, pm_order, pm_log >>
      ]_vars

ProfilerWitness ==
    /\ pm_call = << "Parameter Update", "raised" >>
    /\ DOMAIN pm_measurements = OperationNames
    /\ pm_measurements["Create Noise TOP"].times = << 1, 1 >>
    /\ pm_measurements["Parameter Update"].count = 1
    /\ Len(pm_log) = 3

\* C17 as stated: every wrapped call adds an INFO 'Calling' line before the
\* function runs and then exactly one closing line, INFO 'completed
\* successfully' with the result returned or ERROR 'failed' with the
\* exception raised again, whatever the function raises; lines already in the
\* log stay as they are.
DebugLogsEveryCall ==
    [][ /\ dl_pc' = "func" => dl_text' = Append(dl_text, << "INFO", "Calling" >>)
        /\ (dl_pc = "func" /\ dl_pc' = "idle") =>
              IF dl_func = "returns"
              THEN /\ dl_text' = Append(dl_text, << "INFO", "completed successfully" >>)
                   /\ dl_ret' = "result"
              ELSE /\ dl_text' = Append(dl_text, << "ERROR", "failed" >>)
                   /\ dl_ret' = "raised " \o dl_func
      ]_vars

\* C17 amended: as above for a function that returns or raises an exception
\* derived from Exception; when it raises one that is not, the exception
\* leaves the wrapper and no closing line is written.
DebugLogsCaughtCalls ==
    [][ /\ dl_pc' = "func" => dl_text' = Append(dl_text, << "INFO", "Calling" >>)
        /\ (dl_pc = "func" /\ dl_pc' = "idle") =>
              /\ dl_func = "returns" =>
                   /\ dl_text' = Append(dl_text, << "INFO", "completed successfully" >>)
                   /\ dl_ret' = "result"
              /\ dl_func = "Exception" =>
                   /\ dl_text' = Append(dl_text, << "ERROR", "failed" >>)
                   /\ dl_ret' = "raised Exception"
              /\ dl_func = "BaseException" =>
                   /\ dl_text' = dl_text
                   /\ dl_ret' = "raised BaseException"
        /\ Len(dl_text') >= Len(dl_text)
        /\ SubSeq(dl_text', 1, Len(dl_text)) = dl_text
      ]_vars

DebugWitness ==
    /\ dl_pc = "idle"
    /\ dl_ret = "raised BaseException"
    /\ dl_text = << << "", "=== Debug Log Started ===" >>,
                    << "INFO", "Calling" >>,
                    << "INFO", "completed successfully" >>,
                    << "INFO", "Calling" >>,
                    << "ERROR", "failed" >>,
                    << "INFO", "Calling" >> >>

\* C18: from a table of at most 100 rows, after every onFrameStart call the
\* table has at most 100 rows; the table changes only on frames divisible by
\* 10, by one row appended at the end; row 0 stays the header; a row that
\* leaves the table is row 1, the oldest data row, and the data rows stay in
\* insertion order.
FrameKeepsTableBounded ==
    [][ /\ Len(fs_table') <= TableLimit
        /\ fs_table'[1] = fs_table[1]
        /\ fs_table' # fs_table =>
              /\ fs_frame' % FramePeriod = 0
              /\ fs_table'[Len(fs_table')] = fs_frame'
              /\ \/ fs_table' = Append(fs_table, fs_frame')
                 \/ fs_table' = << fs_table[1] >>
                                  \o SubSeq(fs_table, 3, Len(fs_table))
                                  \o << fs_frame' >>
        /\ \A i \in 2..(Len(fs_table') - 1) : fs_table'[i] < fs_table'[i + 1]
      ]_vars

FrameWitness ==
    /\ Len(fs_table) = TableLimit
    /\ fs_table[1] = 0
    /\ fs_table[2] = 3 - TableLimit
    /\ fs_table[TableLimit - 1] = FramePeriod
    /\ fs_table[TableLimit] = 2 * FramePeriod

\* C19: for every list of operator descriptions, also with entries of an
\* unknown type, create_from_json does not raise, and when it has returned
\* every created operator but the first has input 0 fed by the operator
\* created just before it and no operator feeds itself.
CreateFromJsonChains ==
    /\ cj_pc \in { "loop", "returned" }
    /\ \A k \in 1..Len(cj_created_ops) : cj_input0[k] # cj_created_ops[k]
    /\ cj_pc = "returned" =>
          \A k \in 2..Len(cj_created_ops) : cj_input0[k] = cj_created_ops[k - 1]

====
